---------------------------- MODULE Spec2Model ----------------------------
(***************************************************************************)
(* Model of the two variants of the in-browser batch file processor:       *)
(*   "archive"    - src/src/App.jsx        (images and PDFs, one ZIP)       *)
(*   "sequential" - src/unnamed/part_000   (images only, one download each) *)
(* A filename is a sequence of tokens: ".", "/", or a non-empty run of     *)
(* characters holding neither.                                             *)
(***************************************************************************)
EXTENDS Integers, Sequences, FiniteSets, TLC

VARIABLES
  variant,      \* which of the two applications is running
  mounted,      \* the App component is mounted
  files,        \* useState([]): the entry store
  processing,   \* useState(false): the busy flag
  canvas,       \* canvasRef.current: the one shared canvas
  created,      \* entries built so far (the next object URL / fresh id)
  allocated,    \* object URLs handed out by createObjectURL for previews
  revokeCount,  \* per preview URL, the revokeObjectURL calls made on it
  edits,        \* setting edits so far that changed a setting
  started,      \* invocations of the batch handler so far
  runs,         \* those invocations still in flight, and the latest one
  tasks,        \* the per-entry promises of those, and older ones still pending
  downloads     \* the a.click() calls of the invocations in runs, in order

vars == <<variant, mounted, files, processing, canvas, created, allocated, revokeCount,
          edits, started, runs, tasks, downloads>>

storeVars == <<files, created, allocated, revokeCount, edits>>
runVars == <<processing, canvas, started, runs, tasks, downloads>>

(* ------------------------------ bounds -------------------------------- *)

\* what the user does in one session: files selected, settings edited and
\* runs started, taken together (removals come on top)
MaxOps == 4

\* the entries in the store where the filenames are examined
MaxNamed == 2

(* --------------------------- program constants ------------------------ *)

\* JavaScript undefined (preview / width / height of a PDF entry)
Undefined == -1
DefaultWidth == 800
DefaultHeight == 600

(* ------------------------------ inputs -------------------------------- *)

Variants == {"archive", "sequential"}

Photo == [name |-> <<"photo", ".", "jpg">>, type |-> "image/jpeg"]
Doc == [name |-> <<"doc", ".", "pdf">>, type |-> "application/pdf"]

\* the files a selection event can hold: a name and a declared MIME type.
\* Whether the bytes decode is not known to the program: it shows when a
\* decode is attempted
FileSet == {Photo, Doc}

\* what the user types into the settings inputs
NameInputs == {<<>>, <<"out">>}
WidthInputs == {0}
HeightInputs == {768}

\* files whose names put the filename rules to the test: no extension, an
\* extension that is not the one of the declared type, a trailing ".", an
\* upper-case extension
Readme == [name |-> <<"README">>, type |-> "image/png"]
Scan == [name |-> <<"scan", ".", "jpg">>, type |-> "image/png"]
Dotted == [name |-> <<"photo", ".">>, type |-> "image/png"]
Report == [name |-> <<"report", ".", "PDF">>, type |-> "application/pdf"]
NamedFiles == FileSet \cup {Readme, Scan, Dotted, Report}

\* names typed into the name input: empty, one blank, a word
NamedInputs == {<<>>, <<" ">>, <<"out">>}

Selections == {<<>>} \cup {<<f>> : f \in FileSet} \cup {<<f, g>> : f, g \in FileSet}

(* --------------------------- pure helpers ----------------------------- *)

StartsWithImage(type) == type \in {"image/jpeg", "image/png"}

RECURSIVE LastIndexOf(_, _)
LastIndexOf(s, c) ==
  IF s = <<>> THEN 0
  ELSE IF s[Len(s)] = c THEN Len(s)
  ELSE LastIndexOf(SubSeq(s, 1, Len(s) - 1), c)

\* a strip that takes the last run of characters and leaves its "."
NameWithoutExtKeepsDot(name) ==
  IF name = <<>> THEN name ELSE SubSeq(name, 1, Len(name) - 1)

\* name.replace(/\.[^/.]+$/, '')
NameWithoutExt(name) ==
  LET i == LastIndexOf(name, ".") IN
  IF /\ i > 0
     /\ i < Len(name)
     /\ \A k \in (i + 1)..Len(name) : name[k] # "/"
  THEN SubSeq(name, 1, i - 1)
  ELSE name

\* name.split('.').pop() || 'png'
Extension(name) ==
  LET i == LastIndexOf(name, ".")
      last == SubSeq(name, i + 1, Len(name))
  IN IF last = <<>> THEN <<"png">> ELSE last

RECURSIVE FilterTruncates(_, _)
\* a removal that cuts the list at the removed entry
FilterTruncates(s, id) ==
  IF s = <<>> THEN <<>>
  ELSE IF s[1].id # id THEN <<s[1]>> \o FilterTruncates(Tail(s), id)
  ELSE <<>>

RECURSIVE Filter(_, _)
\* prev.filter((f) => f.id !== id)
Filter(s, id) ==
  IF s = <<>> THEN <<>>
  ELSE IF s[1].id # id THEN <<s[1]>> \o Filter(Tail(s), id)
  ELSE Filter(Tail(s), id)

\* prev.find((f) => f.id === id): the index of the first match, 0 for none
Find(s, id) ==
  IF \E i \in 1..Len(s) : s[i].id = id
  THEN CHOOSE i \in 1..Len(s) : s[i].id = id /\ \A j \in 1..(i - 1) : s[j].id # id
  ELSE 0

Pick(updates, file, k) == IF k \in DOMAIN updates THEN updates[k] ELSE file[k]

\* { ...file, ...updates }
Merge(file, updates) ==
  [id |-> Pick(updates, file, "id"),
   file |-> Pick(updates, file, "file"),
   type |-> Pick(updates, file, "type"),
   preview |-> Pick(updates, file, "preview"),
   outputFilename |-> Pick(updates, file, "outputFilename"),
   width |-> Pick(updates, file, "width"),
   height |-> Pick(updates, file, "height")]

Ids(s) == {s[i].id : i \in 1..Len(s)}

\* the user's actions so far
Ops == created + edits + started

(* ------------------------------ intake -------------------------------- *)

\* classification of a selected file: App.jsx decides by MIME type, the
\* image-only variant has no type field and treats every entry as an image
TypeOf(v, file) ==
  IF v = "archive"
  THEN IF StartsWithImage(file.type) THEN "image" ELSE "pdf"
  ELSE "image"

\* the entry built for one selected file; n is its creation index, which is
\* also the object URL createObjectURL hands out for it
NewEntry(v, file, id, n) ==
  LET type == TypeOf(v, file) IN
  [id |-> id,
   file |-> file,
   type |-> type,
   preview |-> IF type = "image" THEN n ELSE Undefined,
   outputFilename |-> NameWithoutExt(file.name),
   width |-> IF type = "image" THEN DefaultWidth ELSE Undefined,
   height |-> IF type = "image" THEN DefaultHeight ELSE Undefined]

\* Math.random().toString(36).substring(7) for the entry of creation index
\* n: up to renaming, a value not met before (n itself) or one met before,
\* of which the model takes the id given just before in the same map call
RandomIds(n, before) == {n} \cup before

\* the id assignments the random source can deliver for a selection
IdChoices(sel, base) ==
  {idOf \in [1..Len(sel) -> (base + 1)..(base + Len(sel))] :
     \A k \in 1..Len(sel) :
       idOf[k] \in RandomIds(base + k, IF k = 1 THEN {} ELSE {idOf[k - 1]})}

\* an intake that builds the entries in reverse selection order
NewFilesReversed(v, sel, idOf, base) ==
  [k \in 1..Len(sel) |-> NewEntry(v, sel[Len(sel) + 1 - k], idOf[k], base + k)]

\* selectedFiles.map(...) with the ids the random source delivered
NewFiles(v, sel, idOf, base) ==
  [k \in 1..Len(sel) |-> NewEntry(v, sel[k], idOf[k], base + k)]

HandleFileChange(sel, idOf) ==
  /\ Ops + Len(sel) <= MaxOps
  /\ LET newFiles == NewFiles(variant, sel, idOf, created) IN
     /\ files' = files \o newFiles
     /\ created' = created + Len(sel)
     /\ allocated' = allocated \cup
          {newFiles[k].preview : k \in {j \in 1..Len(sel) : newFiles[j].preview # Undefined}}
  /\ UNCHANGED <<variant, mounted, revokeCount, edits, runVars>>

(* ------------------------------ removal ------------------------------- *)

RemoveFile(id) ==
  /\ LET updatedFiles == Filter(files, id)
         r == Find(files, id)
     IN /\ files' = updatedFiles
        /\ revokeCount' =
             IF r # 0 /\ files[r].preview # Undefined
             THEN [revokeCount EXCEPT ![files[r].preview] = @ + 1]
             ELSE revokeCount
  /\ UNCHANGED <<variant, mounted, created, allocated, edits, runVars>>

(* ------------------------------- update ------------------------------- *)

\* the objects the three setting inputs pass as updates
SettingUpdates ==
  {[outputFilename |-> n] : n \in NameInputs}
    \cup {[width |-> w] : w \in WidthInputs}
    \cup {[height |-> h] : h \in HeightInputs}

\* an update that forgets the id test
MapUpdateAll(prev, id, updates) ==
  [i \in 1..Len(prev) |-> Merge(prev[i], updates)]

\* prev.map((file) => (file.id === id ? { ...file, ...updates } : file))
MapUpdate(prev, id, updates) ==
  [i \in 1..Len(prev) |-> IF prev[i].id = id THEN Merge(prev[i], updates) ELSE prev[i]]

UpdateFileSettings(id, updates) ==
  /\ Ops < MaxOps
  /\ files' = MapUpdate(files, id, updates)
  /\ edits' = IF files' # files THEN edits + 1 ELSE edits
  /\ UNCHANGED <<variant, mounted, created, allocated, revokeCount, runVars>>

(* ------------------------------ teardown ------------------------------ *)

\* the App component is unmounted: it registers no effect (no useEffect),
\* so that no cleanup of its own runs
Unmount ==
  /\ mounted
  /\ mounted' = FALSE
  /\ UNCHANGED <<variant, storeVars, runVars>>

(* --------------------------- per-entry tasks -------------------------- *)

Blank == [name |-> <<>>, type |-> ""]
NoBlob == [kind |-> "none", width |-> Undefined, height |-> Undefined, src |-> Blank]
NoArt == [filename |-> <<>>, blob |-> NoBlob]

\* whether the load started by img.src = fileState.preview can succeed:
\* the object URL must still resolve when it is assigned
Loadable(fs) ==
  /\ fs.preview # Undefined
  /\ revokeCount[fs.preview] = 0

\* the promise one call of processFile / processAndDownloadImage creates;
\* fs is the entry object the call closes over
IssueTask(r, i, fs) ==
  [run |-> r, idx |-> i, fs |-> fs,
   st |-> IF fs.type = "pdf" THEN "reading" ELSE "loading",
   loadable |-> IF fs.type = "pdf" THEN FALSE ELSE Loadable(fs),
   snap |-> NoBlob,
   art |-> NoArt]

TasksOf(ts, r) == {t \in ts : t.run = r}

\* a draw that leaves the canvas at the size the last draw gave it
DrawNoResize(cv, fs) == [width |-> cv.width, height |-> cv.height, pix |-> fs.file]

\* canvas.width = ..; canvas.height = ..; ctx.drawImage(img, 0, 0, w, h)
Draw(cv, fs) == [width |-> fs.width, height |-> fs.height, pix |-> fs.file]

\* canvas.toBlob copies the bitmap when it is called; the callback gets
\* null for a bitmap with no pixels (a width or height of 0)
BitmapCopy(cv) == [kind |-> "image", width |-> cv.width, height |-> cv.height, src |-> cv.pix]
HasPixels(b) == b.width > 0 /\ b.height > 0

\* a filename whose extension is the subtype of the type handed to toBlob
ImageFilenameFromCodec(fs) ==
  fs.outputFilename \o <<".", IF fs.file.type = "image/jpeg" THEN "jpeg" ELSE "png">>

ImageFilename(fs) == fs.outputFilename \o <<".">> \o Extension(fs.file.name)
PdfFilename(fs) == fs.outputFilename \o <<".", "pdf">>

\* Promise.allSettled in place of Promise.all: never rejects
JoinAllSettled(ts) ==
  IF \A t \in ts : t.st \in {"resolved", "rejected"} THEN "resolve" ELSE "pending"

\* Promise.any in place of Promise.all: resolves with the first result
JoinFirstResolved(ts) ==
  IF \E t \in ts : t.st = "resolved" THEN "resolve"
  ELSE IF \A t \in ts : t.st = "rejected" THEN "reject"
  ELSE "pending"

\* Promise.all over the promises of run r: "reject" once one has rejected,
\* "resolve" once all have resolved
JoinOutcome(ts) ==
  IF \E t \in ts : t.st = "rejected" THEN "reject"
  ELSE IF \A t \in ts : t.st = "resolved" THEN "resolve"
  ELSE "pending"

\* an archive that keeps the first file put under a name
ZipFirstWins(ts) ==
  LET done == {t \in ts : t.st = "resolved"} IN
  {t.art : t \in {u \in done : \A w \in done : w.art.filename = u.art.filename => w.idx >= u.idx}}

\* processedFiles.forEach(({ blob, filename }) => zip.file(filename, blob)):
\* in store order, a later file of the same name replacing the earlier
ZipOf(ts) ==
  LET done == {t \in ts : t.st = "resolved"} IN
  {t.art : t \in {u \in done : \A w \in done : w.art.filename = u.art.filename => w.idx <= u.idx}}

\* the invocation with this id, when it has not been dropped
RunOf(rs, id) == {r \in rs : r.id = id}

InFlight(rs) == {r \in rs : r.pc # "done"}

\* what the awaiting processAndDownload of run id does once a promise of
\* its Promise.all has settled: catch and finally on a rejection, the
\* forEach over the results and zip.generateAsync once all have resolved
AfterSettle(id, ts) ==
  IF \E r \in RunOf(runs, id) : r.pc = "awaitAll" THEN
    LET r == CHOOSE x \in RunOf(runs, id) : TRUE
        outcome == JoinOutcome(TasksOf(ts, id))
    IN IF outcome = "reject" THEN
         /\ runs' = (runs \ {r}) \cup {[r EXCEPT !.pc = "done"]}
         /\ processing' = FALSE
       ELSE IF outcome = "resolve" THEN
         /\ runs' = (runs \ {r}) \cup {[r EXCEPT !.pc = "zipping", !.zip = ZipOf(TasksOf(ts, id))]}
         /\ processing' = processing
       ELSE
         /\ runs' = runs
         /\ processing' = processing
  ELSE
    /\ runs' = runs
    /\ processing' = processing

(* ------------------------------ batch run ----------------------------- *)

Blankname(name) == \A k \in 1..Len(name) : name[k] = " "

\* a run button that does not look at the busy flag
ButtonDisabledNoBusy ==
  \/ Len(files) = 0
  \/ variant = "archive" /\ \E i \in 1..Len(files) : Blankname(files[i].outputFilename)

\* a run button that does not look at the output names
ButtonDisabledNoName ==
  \/ processing
  \/ Len(files) = 0

\* the disabled attribute of the run button
ButtonDisabled ==
  \/ processing
  \/ Len(files) = 0
  \/ variant = "archive" /\ \E i \in 1..Len(files) : Blankname(files[i].outputFilename)

NewRun(id, pc) == [id |-> id, pc |-> pc, snap |-> files, cursor |-> 1, zip |-> {}]

Pending(t) == t.st \in {"reading", "loading", "encoding"}

\* an invocation that has returned is garbage once the next one starts,
\* and so are its promises: settling one has no effect left. What stays of
\* it are the image loads still under way, whose onload will draw on the
\* shared canvas
KeptRuns == InFlight(runs)
KeptTasks == {t \in tasks : t.st = "loading" \/ RunOf(KeptRuns, t.run) # {}}

\* a promise after a step: one of a dropped invocation is dropped with it
Settled(ts, t, done) ==
  IF RunOf(runs, t.run) = {} THEN ts \ {t} ELSE (ts \ {t}) \cup {done}
KeptDownloads ==
  LET Kept(d) == RunOf(KeptRuns, d.run) # {} IN SelectSeq(downloads, Kept)

\* processAndDownload up to its first await: every per-entry call is made
ProcessAndDownload ==
  /\ variant = "archive"
  /\ ~ButtonDisabled
  /\ Ops < MaxOps
  /\ Len(files) # 0
  /\ processing' = TRUE
  /\ started' = started + 1
  /\ runs' = KeptRuns \cup {NewRun(started + 1, "awaitAll")}
  /\ tasks' = KeptTasks \cup {IssueTask(started + 1, i, files[i]) : i \in 1..Len(files)}
  /\ downloads' = KeptDownloads
  /\ UNCHANGED <<variant, mounted, storeVars, canvas>>

\* a handler that starts the calls of all the entries before it awaits
HandleProcessAndDownloadAllAtOnce ==
  /\ variant = "sequential"
  /\ ~ButtonDisabled
  /\ Ops < MaxOps
  /\ Len(files) # 0
  /\ processing' = TRUE
  /\ started' = started + 1
  /\ runs' = KeptRuns \cup {NewRun(started + 1, "loop")}
  /\ tasks' = KeptTasks \cup {IssueTask(started + 1, i, files[i]) : i \in 1..Len(files)}
  /\ downloads' = KeptDownloads
  /\ UNCHANGED <<variant, mounted, storeVars, canvas>>

\* handleProcessAndDownload up to its first await: the first entry's call
HandleProcessAndDownload ==
  /\ variant = "sequential"
  /\ ~ButtonDisabled
  /\ Ops < MaxOps
  /\ Len(files) # 0
  /\ processing' = TRUE
  /\ started' = started + 1
  /\ runs' = KeptRuns \cup {NewRun(started + 1, "loop")}
  /\ tasks' = KeptTasks \cup {IssueTask(started + 1, 1, files[1])}
  /\ downloads' = KeptDownloads
  /\ UNCHANGED <<variant, mounted, storeVars, canvas>>

\* a handler without its first line: the busy flag is set on an empty store
BusyOnEmpty ==
  /\ Len(files) = 0
  /\ Ops < MaxOps
  /\ started' = started + 1
  /\ processing' = TRUE
  /\ UNCHANGED <<variant, mounted, storeVars, canvas, runs, tasks, downloads>>

\* processAndDownload / handleProcessAndDownload called with an empty store:
\* if (files.length === 0) return
ReturnOnEmpty ==
  /\ Len(files) = 0
  /\ Ops < MaxOps
  /\ started' = started + 1
  /\ UNCHANGED <<variant, mounted, storeVars, processing, canvas, runs, tasks, downloads>>

\* img.onload: resize, draw, toBlob
ImageOnload(t) ==
  /\ t.st = "loading"
  /\ t.loadable
  /\ canvas' = Draw(canvas, t.fs)
  /\ tasks' = Settled(tasks, t, [t EXCEPT !.st = "encoding", !.snap = BitmapCopy(canvas')])
  /\ UNCHANGED <<variant, mounted, storeVars, processing, started, runs, downloads>>

\* an onerror handler that resolves the promise, so that the loop of the
\* sequential variant goes on to the next entry
ImageOnerrorResolves(t) ==
  /\ t.st = "loading"
  /\ IF variant = "sequential" /\ RunOf(runs, t.run) # {}
     THEN LET r == CHOOSE x \in RunOf(runs, t.run) : TRUE
              failed == [t EXCEPT !.st = "failed"]
          IN IF t.idx < Len(r.snap)
             THEN /\ tasks' = (tasks \ {t}) \cup
                                {failed, IssueTask(r.id, t.idx + 1, r.snap[t.idx + 1])}
                  /\ runs' = (runs \ {r}) \cup {[r EXCEPT !.cursor = t.idx + 1]}
                  /\ processing' = processing
             ELSE /\ tasks' = (tasks \ {t}) \cup {failed}
                  /\ runs' = (runs \ {r}) \cup {[r EXCEPT !.pc = "done"]}
                  /\ processing' = FALSE
     ELSE /\ tasks' = Settled(tasks, t, [t EXCEPT !.st = "failed"])
          /\ UNCHANGED <<runs, processing>>
  /\ UNCHANGED <<variant, mounted, storeVars, canvas, started, downloads>>

\* the load fails (revoked URL, or bytes that do not decode): no onerror
\* handler is set, the promise stays pending
ImageOnerror(t) ==
  /\ t.st = "loading"
  /\ tasks' = Settled(tasks, t, [t EXCEPT !.st = "failed"])
  /\ UNCHANGED <<variant, mounted, storeVars, processing, canvas, started, runs, downloads>>

\* the toBlob callback of processFile
ToBlobArchive(t) ==
  /\ variant = "archive"
  /\ t.st = "encoding"
  /\ IF HasPixels(t.snap)
     THEN LET done == [t EXCEPT !.st = "resolved",
                                !.art = [filename |-> ImageFilename(t.fs), blob |-> t.snap]]
              ts == (tasks \ {t}) \cup {done}
          IN /\ tasks' = ts
             /\ AfterSettle(t.run, ts)
     ELSE /\ tasks' = (tasks \ {t}) \cup {[t EXCEPT !.st = "nullblob"]}
          /\ UNCHANGED <<runs, processing>>
  /\ UNCHANGED <<variant, mounted, storeVars, canvas, started, downloads>>

\* fileState.file.arrayBuffer(), PDFDocument.load, pdfDoc.save; parsed: the
\* bytes are a PDF document
PdfSettle(t, parsed) ==
  /\ t.st = "reading"
  /\ LET done == IF parsed
                 THEN [t EXCEPT !.st = "resolved",
                                !.art = [filename |-> PdfFilename(t.fs),
                                         blob |-> [kind |-> "pdf", width |-> Undefined,
                                                   height |-> Undefined, src |-> t.fs.file]]]
                 ELSE [t EXCEPT !.st = "rejected"]
         ts == (tasks \ {t}) \cup {done}
     IN /\ tasks' = ts
        /\ AfterSettle(t.run, ts)
  /\ UNCHANGED <<variant, mounted, storeVars, canvas, started, downloads>>

ZipName == <<"processed_files", ".", "zip">>

\* zip.generateAsync resolves: a.click(), then finally
ArchiveDownload(r) ==
  /\ r.pc = "zipping"
  /\ downloads' = Append(downloads, [run |-> r.id, idx |-> 0, filename |-> ZipName,
                                     content |-> r.zip])
  /\ runs' = (runs \ {r}) \cup {[r EXCEPT !.pc = "done"]}
  /\ processing' = FALSE
  /\ UNCHANGED <<variant, mounted, storeVars, canvas, started, tasks>>

\* the toBlob callback of processAndDownloadImage, and the loop step or the
\* finally block its resolve() leads to
ToBlobSequential(t) ==
  /\ variant = "sequential"
  /\ t.st = "encoding"
  /\ IF HasPixels(t.snap)
     THEN LET art == [filename |-> ImageFilename(t.fs), blob |-> t.snap]
              done == [t EXCEPT !.st = "resolved", !.art = art]
              r == CHOOSE x \in RunOf(runs, t.run) : TRUE
          IN /\ downloads' = Append(downloads, [run |-> r.id, idx |-> t.idx,
                                                filename |-> art.filename, content |-> {art}])
             /\ IF t.idx < Len(r.snap)
                THEN /\ tasks' = (tasks \ {t}) \cup
                                   {done, IssueTask(r.id, t.idx + 1, r.snap[t.idx + 1])}
                     /\ runs' = (runs \ {r}) \cup {[r EXCEPT !.cursor = t.idx + 1]}
                     /\ processing' = processing
                ELSE /\ tasks' = (tasks \ {t}) \cup {done}
                     /\ runs' = (runs \ {r}) \cup {[r EXCEPT !.pc = "done"]}
                     /\ processing' = FALSE
     ELSE /\ tasks' = (tasks \ {t}) \cup {[t EXCEPT !.st = "nullblob"]}
          /\ UNCHANGED <<runs, processing, downloads>>
  /\ UNCHANGED <<variant, mounted, storeVars, canvas, started>>

(* --------------------------- specification ---------------------------- *)

Init ==
  /\ variant \in Variants
  /\ mounted = TRUE
  /\ files = <<>>
  /\ processing = FALSE
  /\ canvas = [width |-> Undefined, height |-> Undefined, pix |-> Blank]
  /\ created = 0
  /\ allocated = {}
  /\ revokeCount = [h \in 1..MaxOps |-> 0]
  /\ edits = 0
  /\ started = 0
  /\ runs = {}
  /\ tasks = {}
  /\ downloads = <<>>

StoreStep ==
  \/ \E sel \in Selections :
       \E idOf \in IdChoices(sel, created) : HandleFileChange(sel, idOf)
  \/ \E id \in 1..MaxOps : RemoveFile(id)
  \/ \E id \in 1..MaxOps : \E updates \in SettingUpdates : UpdateFileSettings(id, updates)

\* the events of an image load and of its encoding
ImageStep ==
  \/ \E t \in tasks : ImageOnload(t)
  \/ \E t \in tasks : ImageOnerror(t)

ArchiveStep ==
  \/ ProcessAndDownload
  \/ \E t \in tasks : ToBlobArchive(t)
  \/ \E t \in tasks : \E parsed \in BOOLEAN : PdfSettle(t, parsed)
  \/ \E r \in runs : ArchiveDownload(r)

SequentialStep ==
  \/ HandleProcessAndDownload
  \/ \E t \in tasks : ToBlobSequential(t)

Next == StoreStep \/ ImageStep \/ ArchiveStep \/ SequentialStep

\* both applications
Spec == Init /\ [][Next]_vars

\* the entry store alone, no batch run
SpecStore == Init /\ [][StoreStep]_vars

\* src/src/App.jsx
InitArchive == Init /\ variant = "archive"
NextArchive == StoreStep \/ ImageStep \/ ArchiveStep
SpecArchive == InitArchive /\ [][NextArchive]_vars

\* src/unnamed/part_000
InitSequential == Init /\ variant = "sequential"
NextSequential == StoreStep \/ ImageStep \/ SequentialStep
SpecSequential == InitSequential /\ [][NextSequential]_vars

\* the entry store from the mounting of App to its unmounting, after which
\* no handler is called
NextLifecycle == (mounted /\ StoreStep) \/ Unmount
SpecLifecycle == Init /\ [][NextLifecycle]_vars

\* both applications, the files being selected one at a time from
\* NamedFiles and renamed from NamedInputs
NamesStep ==
  \/ \E f \in NamedFiles :
       Len(files) < MaxNamed /\ HandleFileChange(<<f>>, <<created + 1>>)
  \/ \E id \in 1..MaxOps : \E n \in NamedInputs :
       UpdateFileSettings(id, [outputFilename |-> n])
NextNames == NamesStep \/ ImageStep \/ ArchiveStep \/ SequentialStep
SpecNames == Init /\ [][NextNames]_vars

\* both applications, their batch handler being called on an empty store
\* as well. The run button is not rendered then, so that the call comes
\* from elsewhere than a click
NextCalls == Next \/ ReturnOnEmpty
SpecCalls == Init /\ [][NextCalls]_vars

\* the browser's event loop delivers every event it has queued: a load or
\* error event for an image whose src was set, the toBlob callback, the
\* settling of the PDF promises and of zip.generateAsync. Nothing makes the
\* user act.
Fairness ==
  /\ WF_vars(ImageStep)
  /\ WF_vars(\E t \in tasks : ToBlobArchive(t))
  /\ WF_vars(\E t \in tasks : \E parsed \in BOOLEAN : PdfSettle(t, parsed))
  /\ WF_vars(\E r \in runs : ArchiveDownload(r))
  /\ WF_vars(\E t \in tasks : ToBlobSequential(t))

FairSpec == Init /\ [][Next]_vars /\ Fairness

(* ------------------------------- claims -------------------------------- *)

Failed(t) == t.st \in {"failed", "nullblob", "rejected"}
DownloadsOf(id) == {k \in 1..Len(downloads) : downloads[k].run = id}

\* C1: every batch run that starts eventually ends and clears the busy
\* flag, also when a decode fails or an encode yields no output: from any
\* state with the busy flag set, one with it cleared is eventually reached.
BusyEventuallyCleared == processing ~> ~processing

\* C2: at most one batch run is in flight at any time, and the busy flag is
\* set exactly while one is.
AtMostOneRunInFlight ==
  /\ Cardinality(InFlight(runs)) <= 1
  /\ processing <=> InFlight(runs) # {}

\* a second run is in flight, entries having been edited and removed
SecondRunInFlight ==
  /\ started = 2
  /\ InFlight(runs) # {}
  /\ edits > 0
  /\ Len(files) < created

\* C3: in the archive variant, a run in which the processing of an entry
\* has failed builds no archive and triggers no download.
NoPartialArchive ==
  \A r \in runs :
    (\E t \in TasksOf(tasks, r.id) : Failed(t)) =>
      /\ r.pc # "zipping"
      /\ r.zip = {}
      /\ DownloadsOf(r.id) = {}

\* a run has ended on a rejection with another entry's artifact in hand
RejectedRunWithArtifact ==
  \E r \in runs :
    /\ r.pc = "done"
    /\ \E t \in TasksOf(tasks, r.id) : t.st = "rejected"
    /\ \E t \in TasksOf(tasks, r.id) : t.st = "resolved"
    /\ DownloadsOf(r.id) = {}

\* C4: in the sequential variant, when the entry at position n of a run
\* fails, the downloads of the entries before it have been triggered, the
\* run goes no further, and no download is triggered for it or a later one.
SequentialStopsAtFailure ==
  \A r \in runs : \A t \in TasksOf(tasks, r.id) :
    Failed(t) =>
      /\ \A j \in 1..(t.idx - 1) : \E k \in DownloadsOf(r.id) : downloads[k].idx = j
      /\ \A k \in DownloadsOf(r.id) : downloads[k].idx < t.idx
      /\ \A u \in TasksOf(tasks, r.id) : u.idx <= t.idx
      /\ r.cursor = t.idx
      /\ r.pc = "loop"

\* the second of three entries has failed after the first was downloaded
SecondOfThreeFailed ==
  \E r \in runs : \E t \in TasksOf(tasks, r.id) :
    /\ Failed(t)
    /\ t.idx = 2
    /\ Len(r.snap) = 3
    /\ \E k \in DownloadsOf(r.id) : downloads[k].idx = 1

\* C5: the bitmap encoded for an image entry of positive width and height,
\* and the artifact made of it, have exactly that entry's width and height
\* and hold that entry's image, however the entries of a run interleave on
\* the shared canvas.
ArtifactHasOwnDimensions ==
  \A t \in tasks :
    (t.st \in {"encoding", "resolved"} /\ t.fs.type = "image"
       /\ t.fs.width > 0 /\ t.fs.height > 0) =>
      /\ t.snap = [kind |-> "image", width |-> t.fs.width, height |-> t.fs.height,
                   src |-> t.fs.file]
      /\ t.st = "resolved" => t.art.blob = t.snap

\* two entries of one run with different target sizes are both past their
\* draw, the canvas holding the size of one of them only
TwoSizesOnOneCanvas ==
  \E t, u \in tasks :
    /\ t.run = u.run
    /\ t.idx < u.idx
    /\ t.fs.height # u.fs.height
    /\ t.fs.height > 0 /\ u.fs.height > 0 /\ t.fs.width > 0 /\ u.fs.width > 0
    /\ t.st = "encoding"
    /\ u.st = "resolved"
    /\ canvas.height = u.fs.height

Previews(s) == {s[i].preview : i \in 1..Len(s)}

\* C6: every entry in the store has exactly one preview handle outstanding
\* (allocated and not revoked), no two entries share one, and the handle of
\* every entry no longer in the store has been revoked exactly once.
OneHandlePerEntry ==
  /\ \A i \in 1..Len(files) :
       /\ files[i].preview \in allocated
       /\ revokeCount[files[i].preview] = 0
       /\ \A j \in 1..Len(files) : files[j].preview = files[i].preview => j = i
  /\ \A h \in allocated \ Previews(files) : revokeCount[h] = 1

\* the entries of s whose id is not id, as positions of s
KeptPositions(s, id) == {i \in 1..Len(s) : s[i].id # id}

\* C7: removeFile(id) makes id absent from the store and leaves the other
\* entries as they were, in their order; for an id not in the store it
\* changes nothing and revokes nothing.
RemoveLeavesOthers ==
  [][\A id \in 1..MaxOps :
       RemoveFile(id) =>
         LET keep == KeptPositions(files, id) IN
         /\ id \notin Ids(files')
         /\ Len(files') = Cardinality(keep)
         /\ \A i \in keep :
              files'[Cardinality({j \in keep : j <= i})] = files[i]
         /\ id \notin Ids(files) => files' = files /\ revokeCount' = revokeCount
         /\ \A h \in 1..MaxOps :
              revokeCount'[h] # revokeCount[h] =>
                \E i \in 1..Len(files) : files[i].id = id /\ files[i].preview = h]_vars

\* the middle one of three entries has been removed
MiddleEntryRemoved ==
  /\ Len(files) = 2
  /\ created = 3
  /\ files[1].preview = 1
  /\ files[2].preview = 3
  /\ revokeCount[2] = 1

SettingFields == {"outputFilename", "width", "height"}

\* C8: updateFileSettings(id, partialSettings) replaces the named fields of
\* the entries with that id and nothing else: not their id, source file,
\* kind or preview handle, no other entry, not the order, and no preview
\* handle is allocated or revoked; with id absent the store is unchanged.
UpdateReplacesNamedFields ==
  [][\A id \in 1..MaxOps : \A updates \in SettingUpdates :
       UpdateFileSettings(id, updates) =>
         /\ Len(files') = Len(files)
         /\ \A i \in 1..Len(files) :
              IF files[i].id = id
              THEN /\ files'[i].id = files[i].id
                   /\ files'[i].file = files[i].file
                   /\ files'[i].type = files[i].type
                   /\ files'[i].preview = files[i].preview
                   /\ \A k \in SettingFields :
                        files'[i][k] = IF k \in DOMAIN updates THEN updates[k] ELSE files[i][k]
              ELSE files'[i] = files[i]
         /\ allocated' = allocated
         /\ revokeCount' = revokeCount
         /\ id \notin Ids(files) => files' = files]_vars

\* of two entries, the second has been renamed and the first has not
SecondEntryRenamed ==
  /\ Len(files) = 2
  /\ files[1].id # files[2].id
  /\ files[1].outputFilename = NameWithoutExt(files[1].file.name)
  /\ files[2].outputFilename = <<"out">>

\* C9: no two entries in the store have the same id.
IdsUnique ==
  \A i, j \in 1..Len(files) : files[i].id = files[j].id => i = j

\* C10: intake appends one entry per selected file to the end of the store,
\* in selection order, leaves the entries already there as they were, and
\* gives each new image entry the width 800 and the height 600.
IntakeAppends ==
  [][\A sel \in Selections : \A idOf \in [1..Len(sel) -> 1..MaxOps] :
       HandleFileChange(sel, idOf) =>
         /\ Len(files') = Len(files) + Len(sel)
         /\ \A i \in 1..Len(files) : files'[i] = files[i]
         /\ \A k \in 1..Len(sel) :
              LET e == files'[Len(files) + k] IN
              /\ e.file = sel[k]
              /\ e.id = idOf[k]
              /\ e.type = "image" => e.width = DefaultWidth /\ e.height = DefaultHeight
         /\ revokeCount' = revokeCount]_vars

\* two different files have been taken in after an entry that was renamed
TwoAppendedAfterRenamed ==
  /\ Len(files) = 3
  /\ files[1].outputFilename = <<"out">>
  /\ files[2].file = Photo
  /\ files[3].file = Doc
  /\ files[2].width = DefaultWidth
  /\ files[2].height = DefaultHeight

\* C11: a call of the batch handler on an empty store changes nothing in
\* either variant: it sets no busy flag, issues no per-entry operation,
\* builds no archive and triggers no download.
EmptyRunIsNoOp ==
  [][(Len(files) = 0 /\ started' # started) =>
       /\ processing' = processing
       /\ runs' = runs
       /\ tasks' = tasks
       /\ downloads' = downloads
       /\ files' = files]_vars

\* the handler was called on a store emptied after a run that downloaded
CalledOnEmptiedStore ==
  /\ started = 2
  /\ Len(files) = 0
  /\ ~processing
  /\ Len(downloads) = 1
  /\ \A r \in runs : r.id = 1 /\ r.pc = "done"

\* a filename that ends in "." and a run of characters holding no "."
HasExtension(name) ==
  /\ Len(name) >= 2
  /\ name[Len(name) - 1] = "."
  /\ name[Len(name)] \notin {".", "/"}

ArchiveLaterWins ==
  \A r \in runs :
    (r.pc = "zipping" \/ DownloadsOf(r.id) # {}) =>
      LET ts == TasksOf(tasks, r.id) IN
      /\ \A a, b \in r.zip : a.filename = b.filename => a = b
      /\ {a.filename : a \in r.zip} = {t.art.filename : t \in ts}
      /\ \A a \in r.zip :
           \E t \in ts :
             /\ t.art = a
             /\ \A u \in ts : u.art.filename = a.filename => u.idx <= t.idx
      /\ \A k \in DownloadsOf(r.id) : downloads[k].content = r.zip

\* two entries of one filename and different sizes have been downloaded
\* in an archive, the earlier of them having been drawn last
SameNameEarlierDrawnLast ==
  \E r \in runs : \E t, u \in TasksOf(tasks, r.id) :
    /\ t.idx < u.idx
    /\ t.art.filename = u.art.filename
    /\ t.art # u.art
    /\ r.zip = {u.art}
    /\ DownloadsOf(r.id) # {}
    /\ canvas.height = t.fs.height

\* C14: in the archive variant every run was started with no blank (empty
\* or whitespace-only) output name in the store, so that no per-entry
\* operation and no artifact of a run has a blank base name; in the
\* sequential variant the run button is disabled by the busy flag and the
\* empty store alone, whatever the output names.
BlankNameGate ==
  /\ variant = "archive" =>
       /\ \A r \in runs : \A i \in 1..Len(r.snap) : ~Blankname(r.snap[i].outputFilename)
       /\ \A t \in tasks :
            /\ ~Blankname(t.fs.outputFilename)
            /\ t.st = "resolved" =>
                 \E n \in 1..Len(t.art.filename) :
                   /\ t.art.filename[n] = "."
                   /\ ~Blankname(SubSeq(t.art.filename, 1, n - 1))
  /\ variant = "sequential" => (ButtonDisabled <=> (processing \/ Len(files) = 0))

\* the sequential variant has downloaded an artifact for an entry whose
\* output name is one blank
BlankNameDownloaded ==
  /\ variant = "sequential"
  /\ \E k \in 1..Len(downloads) : downloads[k].filename = <<" ", ".", "jpg">>
  /\ \E t \in tasks : t.st = "resolved" /\ t.fs.outputFilename = <<" ">>

\* the entry a call closed over is as intake built it
AtDefaults(t) == t.fs = NewEntry(variant, t.fs.file, t.fs.id, t.fs.preview)

\* C15 as stated: for an entry left at its default settings the artifact
\* filename equals the source filename, whatever the source filename.
DefaultNameRoundTrip ==
  \A t \in tasks :
    (t.st = "resolved" /\ AtDefaults(t)) => t.art.filename = t.fs.file.name

\* C15: for an entry left at its default settings the artifact filename
\* equals the source filename exactly when the source filename has an
\* extension and, for a document entry, that extension is "pdf".
RoundTripWithExtension ==
  \A t \in tasks :
    (t.st = "resolved" /\ AtDefaults(t)) =>
      (t.art.filename = t.fs.file.name
         <=> /\ HasExtension(t.fs.file.name)
             /\ t.fs.type = "pdf" => t.fs.file.name[Len(t.fs.file.name)] = "pdf")

\* photo.jpg at its default settings has been encoded as photo.jpg
PhotoKeepsItsName ==
  \E t \in tasks :
    /\ t.st = "resolved"
    /\ AtDefaults(t)
    /\ t.fs.file = Photo
    /\ t.fs.outputFilename = <<"photo">>
    /\ t.fs.width = DefaultWidth
    /\ t.fs.height = DefaultHeight
    /\ t.art.filename = <<"photo", ".", "jpg">>

\* C16: what the user does to the store while a run is in flight does not
\* reach the run: every per-entry operation of the run works on the entry
\* as the run took it, and the preview URL it decodes from still resolves
\* when the operation is issued, the entry having been removed or not.
MidRunChangesHarmless ==
  \A r \in InFlight(runs) : \A t \in TasksOf(tasks, r.id) :
    /\ t.fs = r.snap[t.idx]
    /\ t.fs.type = "image" => t.loadable

\* C17: in the sequential variant the entries of a run are taken up one
\* after the other in store order: the entries begun are the first ones of
\* the run, each begun only once and only after a download was triggered
\* for every entry before it, and the downloads of the run come in store
\* order, at most one per entry, each holding that entry's artifact.
SequentialInStoreOrder ==
  \A r \in runs :
    LET ts == TasksOf(tasks, r.id)
        ds == DownloadsOf(r.id)
    IN /\ {t.idx : t \in ts} = 1..r.cursor
       /\ \A t, u \in ts : t.idx = u.idx => t = u
       /\ \A t \in ts : \A j \in 1..(t.idx - 1) : \E k \in ds : downloads[k].idx = j
       /\ \A k, l \in ds : k < l => downloads[k].idx < downloads[l].idx
       /\ \A k \in ds :
            \E t \in ts :
              /\ t.idx = downloads[k].idx
              /\ t.st = "resolved"
              /\ t.fs = r.snap[t.idx]
              /\ downloads[k].content = {t.art}

\* of a run of three entries the first two have been downloaded, in that
\* order, and the third is being decoded
ThirdBegunAfterTwoDownloads ==
  \E r \in runs :
    /\ Len(r.snap) = 3
    /\ Len(downloads) = 2
    /\ downloads[1].run = r.id /\ downloads[1].idx = 1
    /\ downloads[2].run = r.id /\ downloads[2].idx = 2
    /\ \E t \in TasksOf(tasks, r.id) : t.idx = 3 /\ t.st = "loading"

\* C18: in the archive variant the per-entry operations of a run are all
\* issued when the run starts, one per entry; the archive is built and its
\* download triggered only when every one of them has completed, and a run
\* triggers at most one download.
ArchiveJoinsAll ==
  \A r \in runs :
    LET ts == TasksOf(tasks, r.id)
        ds == DownloadsOf(r.id)
    IN /\ {t.idx : t \in ts} = 1..Len(r.snap)
       /\ \A t, u \in ts : t.idx = u.idx => t = u
       /\ \A t \in ts : t.fs = r.snap[t.idx]
       /\ (r.pc = "zipping" \/ r.zip # {} \/ ds # {}) => \A t \in ts : t.st = "resolved"
       /\ Cardinality(ds) <= 1
       /\ ds # {} => r.pc = "done"

\* the second entry of a run has completed while the first is still being
\* decoded, and nothing has been packaged
SecondCompletedFirst ==
  \E r \in runs : \E t, u \in TasksOf(tasks, r.id) :
    /\ t.idx = 1 /\ t.st = "loading"
    /\ u.idx = 2 /\ u.st = "resolved"
    /\ r.pc = "awaitAll"
    /\ DownloadsOf(r.id) = {}

\* C19: once the application has been torn down, every preview handle it
\* allocated has been revoked.
TeardownRevokesAll ==
  ~mounted => \A h \in allocated : revokeCount[h] >= 1

\* C20: the artifact of an image entry whose source filename holds no "."
\* is named by the entry's output name followed by ".png".
NoExtensionGivesPng ==
  \A t \in tasks :
    (/\ t.st = "resolved"
     /\ t.fs.type = "image"
     /\ \A k \in 1..Len(t.fs.file.name) : t.fs.file.name[k] # ".") =>
      t.art.filename = t.fs.outputFilename \o <<".", "png">>

=============================================================================
